---- MODULE Spec2Model ----
(***************************************************************************)
(* Nutrition computation of the calorie-tracker backend:                   *)
(*   - the Meal model and its pre('save') hook (backend/models/Meal.js),   *)
(*   - the goal computation of registerUser (userController.js), for one  *)
(*     request at a time and for concurrent requests,                      *)
(*   - the daily summary and the weekly chart of DashboardScreen.          *)
(*                                                                         *)
(* JavaScript numbers are IEEE-754 doubles.  A double is modelled as a     *)
(* record [k, h, l] standing for the real number h * 2^53 + l, with l      *)
(* small.  Every operation computes the exact result and rounds it to the  *)
(* nearest double, ties to even, as the hardware does: integers below      *)
(* 2^53 are exact, above 2^53 only multiples of the binade's ulp exist.    *)
(***************************************************************************)
EXTENDS Integers, Sequences, FiniteSets, TLC

VARIABLES
  items,          \* Meal.items of the document being edited
  totalCalories,  \* Meal.totalCalories of the document
  totalMacros,    \* Meal.totalMacros of the document
  saveResult,     \* outcome of the last save() since the last mutation
  itemsA,         \* an item list given to the hook ...
  itemsB,         \* ... and a permutation of it
  totalsA,        \* what the hook computes for itemsA
  totalsB,        \* what the hook computes for itemsB
  aggregated,     \* whether both lists have been aggregated
  pc,             \* where registerUser stands: idle, or the await it is at
  body,           \* req.body of the request being handled
  tdee,           \* calculateTDEE(...) of the request
  newUser,        \* the User document the handler builds
  users,          \* the users collection
  response,       \* the status of the last response, 0 before any
  user,           \* auth.user of the store
  logged,         \* the meals the user has logged
  daily,          \* stats.daily of the store
  weekly,         \* stats.weekly of the store
  rendered,       \* whether the dashboard has rendered
  today,          \* the summary of the day of the last render
  calorieChartData, \* the chart data of the last render
  requests,       \* the registerUser requests in flight, each with its locals
  collection      \* the users collection the concurrent requests share

mealVars == <<items, totalCalories, totalMacros, saveResult>>
permVars == <<itemsA, itemsB, totalsA, totalsB, aggregated>>
regVars == <<pc, body, tdee, newUser, users, response>>
dashVars == <<user, logged, daily, weekly, rendered, today, calorieChartData>>
concVars == <<requests, collection>>
vars == <<mealVars, permVars, regVars, dashVars, concVars>>

(***************************************************************************)
(* Bounds of the model.                                                    *)
(***************************************************************************)
MaxItems == 2
MaxPerm == 3
MaxRequests == 2

(***************************************************************************)
(* Doubles.                                                                *)
(***************************************************************************)
Num(n) == [k |-> "num", h |-> 0, l |-> n]
Big(m, n) == [k |-> "num", h |-> m, l |-> n]
Undefined == [k |-> "undefined", h |-> 0, l |-> 0]
NaN == [k |-> "NaN", h |-> 0, l |-> 0]

IsNum(x) == x.k = "num"

RECURSIVE Pow2Floor(_)
\* the largest power of two that is <= n, for n >= 1
Pow2Floor(n) == IF n < 2 THEN 1 ELSE 2 * Pow2Floor(n \div 2)

\* n >= 0 rounded to the nearest multiple of ulp, a tie going to the even
\* multiple
RoundToEven(n, ulp) ==
  LET q == n \div ulp
      r == n % ulp
  IN  IF 2 * r < ulp THEN q * ulp
      ELSE IF 2 * r > ulp THEN (q + 1) * ulp
      ELSE IF q % 2 = 0 THEN q * ulp ELSE (q + 1) * ulp

\* the spacing of the doubles around h * 2^53 + l, for h >= 1: 2^53 <= x <
\* 2^54 holds the even integers, 2^54 <= x < 2^55 the multiples of 4, ...;
\* just below a power of two the spacing is that of the binade below
UlpAt(h, l) ==
  LET p == Pow2Floor(h)
  IN  IF l < 0 /\ p = h THEN p ELSE 2 * p

\* the double nearest to the real number h * 2^53 + l
RoundD(h, l) ==
  IF h = 0 THEN Num(l)
  ELSE IF h > 0
    THEN IF l >= 0
           THEN Big(h, RoundToEven(l, UlpAt(h, l)))
           ELSE Big(h, -RoundToEven(-l, UlpAt(h, l)))
    ELSE IF l <= 0
           THEN Big(h, -RoundToEven(-l, UlpAt(-h, -l)))
           ELSE Big(h, RoundToEven(l, UlpAt(-h, -l)))

\* x + y of JavaScript
Add(x, y) ==
  IF IsNum(x) /\ IsNum(y) THEN RoundD(x.h + y.h, x.l + y.l) ELSE NaN

\* x * y of JavaScript, for operands of which at most one exceeds 2^53
Mul(x, y) ==
  IF IsNum(x) /\ IsNum(y)
    THEN RoundD(x.h * y.l + x.l * y.h, x.l * y.l)
    ELSE NaN

(***************************************************************************)
(* The Food catalogue (FoodSchema) and the items of a Meal                 *)
(* (FoodItemSchema).  An item's food is the populated Food document, or a  *)
(* reference that was not resolved to one: then item.food is a bare        *)
(* ObjectId, whose calories and macros are undefined.                      *)
(***************************************************************************)
FoodCatalog ==
  [ apple |-> [ servingSize |-> [amount |-> Num(100), unit |-> "g"],
                calories |-> Num(50),
                macros |-> [protein |-> Num(1), carbs |-> Num(13), fat |-> Num(0)] ],
    feast |-> [ servingSize |-> [amount |-> Num(1), unit |-> "g"],
                calories |-> Big(1, 0),
                macros |-> [protein |-> Big(1, 0), carbs |-> Num(0), fat |-> Num(0)] ] ]

Unresolved == "unresolved"

Populated(food) == food \in DOMAIN FoodCatalog

FoodItem(food, quantity, unit) ==
  [food |-> food, quantity |-> quantity, unit |-> unit]

\* the inputs of the Meal document's operations
MealFoods == {"apple", Unresolved}
MealQuantities == {Num(-1), Num(0), Num(200), NaN}
Units == {"g", "piece"}
HandWritten == Num(7)

\* the inputs of the aggregation of a list and of its permutations
PermItems ==
  { FoodItem("apple", Num(1), "g"), FoodItem("apple", Num(200), "g"),
    FoodItem("feast", Num(1), "g"), FoodItem(Unresolved, Num(1), "g") }

SeqsUpTo(S, n) == UNION { [1..m -> S] : m \in 0..n }

(***************************************************************************)
(* MealSchema.pre('save'): the totals of the items, in the order of the    *)
(* list.                                                                   *)
(***************************************************************************)
NoTotals ==
  [ threw |-> FALSE, totalCals |-> Num(0), totalProtein |-> Num(0),
    totalCarbs |-> Num(0), totalFat |-> Num(0) ]

\* the hook left by an exception: its local sums are lost
Thrown == [NoTotals EXCEPT !.threw = TRUE]

\* the callback with "=" written for "+=": the last item alone counts
ForEachBodyAssigns(acc, item) ==
  LET factor == item.quantity
  IN  IF ~Populated(item.food)
        THEN Thrown
        ELSE LET food == FoodCatalog[item.food]
             IN  [ threw |-> FALSE,
                   totalCals |-> Mul(food.calories, factor),
                   totalProtein |-> Mul(food.macros.protein, factor),
                   totalCarbs |-> Mul(food.macros.carbs, factor),
                   totalFat |-> Mul(food.macros.fat, factor) ]

\* the body of the forEach callback, for one item
ForEachBody(acc, item) ==
  LET factor == item.quantity
  IN  IF ~Populated(item.food)
        \* item.food.calories is undefined and the sum NaN; item.food.macros
        \* is undefined and reading its .protein throws a TypeError
        THEN Thrown
        ELSE LET food == FoodCatalog[item.food]
             IN  [ threw |-> FALSE,
                   totalCals |-> Add(acc.totalCals, Mul(food.calories, factor)),
                   totalProtein |-> Add(acc.totalProtein, Mul(food.macros.protein, factor)),
                   totalCarbs |-> Add(acc.totalCarbs, Mul(food.macros.carbs, factor)),
                   totalFat |-> Add(acc.totalFat, Mul(food.macros.fat, factor)) ]

RECURSIVE ForEach(_, _, _)
\* this.items.forEach(...), from item i on; an exception ends the loop
ForEach(its, i, acc) ==
  IF i > Len(its) \/ acc.threw THEN acc
  ELSE ForEach(its, i + 1, ForEachBody(acc, its[i]))

PreSave(its) == ForEach(its, 1, NoTotals)

\* the validation mongoose runs before the pre('save') hooks: food,
\* quantity and unit are required, and a quantity must cast to a Number,
\* which NaN does not
ValidItem(item) == IsNum(item.quantity)

Validates(its) == \A i \in 1..Len(its) : ValidItem(its[i])

(***************************************************************************)
(* The operations on a Meal document.                                      *)
(***************************************************************************)
InitMeal ==
  /\ items = <<>>
  /\ totalCalories = Undefined
  /\ totalMacros = [protein |-> Undefined, carbs |-> Undefined, fat |-> Undefined]
  /\ saveResult = "none"

InitPermIdle ==
  /\ itemsA = <<>>
  /\ itemsB = <<>>
  /\ totalsA = NoTotals
  /\ totalsB = NoTotals
  /\ aggregated = FALSE

AddItem(food, quantity, unit) ==
  /\ Len(items) < MaxItems
  /\ items' = Append(items, FoodItem(food, quantity, unit))
  /\ saveResult' = "none"
  /\ UNCHANGED <<totalCalories, totalMacros>>

RemoveItem(i) ==
  /\ i \in 1..Len(items)
  /\ items' = SubSeq(items, 1, i - 1) \o SubSeq(items, i + 1, Len(items))
  /\ saveResult' = "none"
  /\ UNCHANGED <<totalCalories, totalMacros>>

EditQuantity(i, quantity) ==
  /\ i \in 1..Len(items)
  /\ items[i].quantity # quantity
  /\ items' = [items EXCEPT ![i].quantity = quantity]
  /\ saveResult' = "none"
  /\ UNCHANGED <<totalCalories, totalMacros>>

WriteTotalCalories(value) ==
  /\ totalCalories' = value
  /\ saveResult' = "none"
  /\ UNCHANGED <<items, totalMacros>>

WriteTotalMacros(value) ==
  /\ totalMacros' = [protein |-> value, carbs |-> value, fat |-> value]
  /\ saveResult' = "none"
  /\ UNCHANGED <<items, totalCalories>>

\* a hook that returns early for a meal without items
AssignedCaloriesUnlessEmpty(its, computed, old) ==
  IF its = <<>> THEN old ELSE computed.totalCals

\* the totals the hook assigns to the document
AssignedCalories(its, computed, old) == computed.totalCals

AssignedMacros(its, computed, old) ==
  [ protein |-> computed.totalProtein, carbs |-> computed.totalCarbs,
    fat |-> computed.totalFat ]

\* meal.save(): validation, then the pre('save') hook, then the write
Save ==
  LET computed == PreSave(items)
  IN  /\ UNCHANGED items
      /\ IF ~Validates(items)
           THEN /\ saveResult' = "ValidationError"
                /\ UNCHANGED <<totalCalories, totalMacros>>
           ELSE IF computed.threw
             THEN /\ saveResult' = "TypeError"
                  /\ UNCHANGED <<totalCalories, totalMacros>>
             ELSE /\ saveResult' = "ok"
                  /\ totalCalories' = AssignedCalories(items, computed, totalCalories)
                  /\ totalMacros' = AssignedMacros(items, computed, totalMacros)

NextMeal ==
  \/ \E food \in MealFoods, quantity \in MealQuantities, unit \in Units :
       AddItem(food, quantity, unit) /\ UNCHANGED <<permVars, regVars, dashVars, concVars>>
  \/ \E i \in 1..MaxItems : RemoveItem(i) /\ UNCHANGED <<permVars, regVars, dashVars, concVars>>
  \/ \E i \in 1..MaxItems, quantity \in MealQuantities :
       EditQuantity(i, quantity) /\ UNCHANGED <<permVars, regVars, dashVars, concVars>>
  \/ WriteTotalCalories(HandWritten) /\ UNCHANGED <<permVars, regVars, dashVars, concVars>>
  \/ WriteTotalMacros(HandWritten) /\ UNCHANGED <<permVars, regVars, dashVars, concVars>>
  \/ Save /\ UNCHANGED <<permVars, regVars, dashVars, concVars>>

(***************************************************************************)
(* The aggregation of a list of items and of a permutation of it.          *)
(***************************************************************************)
InitPerm ==
  /\ itemsA \in SeqsUpTo(PermItems, MaxPerm)
  /\ itemsB = itemsA
  /\ totalsA = NoTotals
  /\ totalsB = NoTotals
  /\ aggregated = FALSE

\* exchange two neighbours of the permuted list
SwapItems(i) ==
  /\ ~aggregated
  /\ i \in 1..(Len(itemsB) - 1)
  /\ itemsB[i] # itemsB[i + 1]
  /\ itemsB' = [itemsB EXCEPT ![i] = itemsB[i + 1], ![i + 1] = itemsB[i]]
  /\ UNCHANGED <<itemsA, totalsA, totalsB, aggregated>>

AggregateBoth ==
  /\ ~aggregated
  /\ totalsA' = PreSave(itemsA)
  /\ totalsB' = PreSave(itemsB)
  /\ aggregated' = TRUE
  /\ UNCHANGED <<itemsA, itemsB>>

NextPerm ==
  \/ \E i \in 1..MaxPerm : SwapItems(i) /\ UNCHANGED <<mealVars, regVars, dashVars, concVars>>
  \/ AggregateBoth /\ UNCHANGED <<mealVars, regVars, dashVars, concVars>>

(***************************************************************************)
(* registerUser: the daily calorie goal and the macro goals.               *)
(*                                                                         *)
(* A weight is counted in quarters of a kilogram (280 is 70 kg, 281 is     *)
(* 70.25 kg), calories and grams in units.  All the values are integers or *)
(* quarters far below 2^53, so the doubles of the code hold them exactly;  *)
(* the one inexact division, by 9, cannot carry a quotient across the .5   *)
(* that Math.round decides on.                                             *)
(***************************************************************************)
proteinPerKg == 2
LoseDeficit == 500
GainSurplus == 500
ProteinKcalPerGram == 4
FatKcalPerGram == 9
CarbsKcalPerGram == 4

\* Math.round(n / d) for d > 0: the nearest integer, a half going up
MathRound(n, d) == (2 * n + d) \div (2 * d)

\* Math.floor(n / d) for d > 0
MathFloor(n, d) == n \div d

\* the goal with the surplus of 'gain' subtracted like the deficit of 'lose'
CalorieGoalAlwaysDeficit(t, goal) ==
  IF goal = "gain" \/ goal = "lose" THEN t - LoseDeficit ELSE t

\* let calorieGoal = tdee; if (goal === 'lose') ...; if (goal === 'gain') ...
CalorieGoal(t, goal) ==
  IF goal = "gain" THEN t + GainSurplus
  ELSE IF goal = "lose" THEN t - LoseDeficit
  ELSE t

\* the fat target cut down instead of rounded
FatFloored(calorieGoal) == MathFloor(calorieGoal * 25, 100 * FatKcalPerGram)

\* Math.round(weight * proteinPerKg), the weight in quarters of a kilogram
Protein(weight) == MathRound(weight * proteinPerKg, 4)

\* Math.round((calorieGoal * 0.25) / 9)
Fat(calorieGoal) == MathRound(calorieGoal * 25, 100 * FatKcalPerGram)

\* the carbohydrate target cut down instead of rounded
CarbsFloored(calorieGoal, protein, fat) ==
  LET remainingCalories ==
        calorieGoal - protein * ProteinKcalPerGram - fat * FatKcalPerGram
  IN  MathFloor(remainingCalories, CarbsKcalPerGram)

\* remainingCalories = calorieGoal - protein * 4 - fat * 9;
\* Math.round(remainingCalories / 4)
Carbs(calorieGoal, protein, fat) ==
  LET remainingCalories ==
        calorieGoal - protein * ProteinKcalPerGram - fat * FatKcalPerGram
  IN  MathRound(remainingCalories, CarbsKcalPerGram)

\* the macro goals with the carbohydrates taken from the energies of
\* protein and fat before these are rounded to grams:
\* round((calorieGoal - 4 * (weight * 2.0) - 0.25 * calorieGoal) / 4);
\* four times the remainder is an integer, the weight being in quarters
MacroGoalsOfUnrounded(weight, calorieGoal) ==
  LET remainingTimes4 ==
        4 * calorieGoal - ProteinKcalPerGram * proteinPerKg * weight - calorieGoal
  IN  [ protein |-> Protein(weight),
        carbs |-> MathRound(remainingTimes4, 4 * CarbsKcalPerGram),
        fat |-> Fat(calorieGoal) ]

\* protein, fat and carbs of registerUser
MacroGoals(weight, calorieGoal) ==
  LET protein == Protein(weight)
      fat == Fat(calorieGoal)
      carbs == Carbs(calorieGoal, protein, fat)
  IN  [protein |-> protein, carbs |-> carbs, fat |-> fat]

GoalValues == {"lose", "maintain", "gain"}

\* the inputs of a registration
Emails == {"ana@example.org", "bob@example.org"}
Weights == {280, 281, 600}
Goals == GoalValues \cup {"undefined", "bulk"}
TdeeValues == {1700, 2002, 2034, 2500}

Bodies == [email : Emails, weight : Weights, goal : Goals]

NoBody == [email |-> "", weight |-> 0, goal |-> ""]

NoUser ==
  [ email |-> "", weight |-> 0, goal |-> "", dailyCalorieGoal |-> 0,
    macroGoals |-> [protein |-> 0, carbs |-> 0, fat |-> 0] ]

InitRegister ==
  /\ pc = "idle"
  /\ body = NoBody
  /\ tdee = 0
  /\ newUser = NoUser
  /\ users = {}
  /\ response = 0

\* a request arrives; the handler runs to: await User.findOne({ email })
Register(b) ==
  /\ pc = "idle"
  /\ body' = b
  /\ tdee' = 0
  /\ newUser' = NoUser
  /\ response' = 0
  /\ pc' = "findOne"
  /\ UNCHANGED users

\* new User({...}): a goal that is not given takes the schema's default
NewUser(b, calorieGoal, macroGoals) ==
  [ email |-> b.email,
    weight |-> b.weight,
    goal |-> IF b.goal = "undefined" THEN "maintain" ELSE b.goal,
    dailyCalorieGoal |-> calorieGoal,
    macroGoals |-> macroGoals ]

\* findOne found a user of that email: 400
RespondEmailUsed ==
  /\ pc = "findOne"
  /\ \E u \in users : u.email = body.email
  /\ response' = 400
  /\ pc' = "idle"
  /\ UNCHANGED <<body, tdee, newUser, users>>

\* findOne found none: the goals are computed and the document built; the
\* handler runs to: await newUser.save()
BuildUser(t) ==
  /\ pc = "findOne"
  /\ ~(\E u \in users : u.email = body.email)
  /\ tdee' = t
  /\ LET calorieGoal == CalorieGoal(t, body.goal)
     IN  newUser' = NewUser(body, calorieGoal, MacroGoals(body.weight, calorieGoal))
  /\ pc' = "save"
  /\ UNCHANGED <<body, users, response>>

\* newUser.save(): the schema's validation (goal is one of the enum), then
\* the insert
SaveUser ==
  /\ pc = "save"
  /\ IF newUser.goal \in GoalValues
       THEN /\ users' = users \cup {newUser}
            /\ pc' = "saved"
       ELSE /\ pc' = "catch"
            /\ UNCHANGED users
  /\ UNCHANGED <<body, tdee, newUser, response>>

\* jwt.sign(...); res.status(201).json(...)
RespondCreated ==
  /\ pc = "saved"
  /\ response' = 201
  /\ pc' = "idle"
  /\ UNCHANGED <<body, tdee, newUser, users>>

\* catch (error): res.status(500)
RespondError ==
  /\ pc = "catch"
  /\ response' = 500
  /\ pc' = "idle"
  /\ UNCHANGED <<body, tdee, newUser, users>>

NextRegister ==
  \/ \E b \in Bodies : Register(b) /\ UNCHANGED <<mealVars, permVars, dashVars, concVars>>
  \/ RespondEmailUsed /\ UNCHANGED <<mealVars, permVars, dashVars, concVars>>
  \/ \E t \in TdeeValues : BuildUser(t) /\ UNCHANGED <<mealVars, permVars, dashVars, concVars>>
  \/ SaveUser /\ UNCHANGED <<mealVars, permVars, dashVars, concVars>>
  \/ RespondCreated /\ UNCHANGED <<mealVars, permVars, dashVars, concVars>>
  \/ RespondError /\ UNCHANGED <<mealVars, permVars, dashVars, concVars>>

(***************************************************************************)
(* DashboardScreen: the summary of the day and the chart of the week, as   *)
(* each render computes them from the store: auth.user, stats.daily and    *)
(* stats.weekly.  A slot of the store is null until its fetch has          *)
(* succeeded.  The statistics are computed by the server from the meals    *)
(* of the user; a date is the number of its day.                           *)
(***************************************************************************)
DefaultGoal == 2000
WeekDays == 7
StartDate == 1
TargetDate == StartDate + WeekDays - 1

Null == [k |-> "null"]

\* a JavaScript array
ArrayOf(elems) == [k |-> "array", elems |-> elems]

NoMacros == [protein |-> Num(0), carbs |-> Num(0), fat |-> Num(0)]

\* Meal documents after their save: the date and the cached totals
MealPool ==
  { [ date |-> StartDate + 2, totalCalories |-> Num(500),
      totalMacros |-> [protein |-> Num(30), carbs |-> Num(50), fat |-> Num(20)] ],
    [ date |-> TargetDate, totalCalories |-> Num(700),
      totalMacros |-> [protein |-> Num(40), carbs |-> Num(90), fat |-> Num(20)] ],
    [ date |-> StartDate - 1, totalCalories |-> Num(400),
      totalMacros |-> [protein |-> Num(10), carbs |-> Num(60), fat |-> Num(13)] ] }

\* user.dailyCalorieGoal in the store
DashboardGoals == {Undefined, Num(0), Num(1534), Num(2500)}

\* x || y: x unless it is falsy (undefined, NaN, 0)
OrElse(x, y) == IF IsNum(x) /\ x # Num(0) THEN x ELSE y

\* the totals of a set of meals
RECURSIVE AggregateDay(_)

AggregateDay(ms) ==
  IF ms = {}
    THEN [calories |-> Num(0), macros |-> NoMacros]
    ELSE LET m == CHOOSE x \in ms : TRUE
             rest == AggregateDay(ms \ {m})
         IN  [ calories |-> Add(rest.calories, m.totalCalories),
               macros |->
                 [ protein |-> Add(rest.macros.protein, m.totalMacros.protein),
                   carbs |-> Add(rest.macros.carbs, m.totalMacros.carbs),
                   fat |-> Add(rest.macros.fat, m.totalMacros.fat) ] ]

MealsOn(ms, date) == {m \in ms : m.date = date}

\* dailyStat(meals, targetDate): the totals of the day and what remains of
\* the goal, goal.energy - total.energy
DailyStat(ms, targetDate, goal) ==
  LET total == AggregateDay(MealsOn(ms, targetDate))
  IN  [ calories |-> total.calories,
        macros |-> total.macros,
        remaining |-> Add(goal, Mul(Num(-1), total.calories)) ]

\* weeklyStat(meals, startDate, dayCount): one entry a day, in the order of
\* the days, a day without meals with zeros
WeeklyStat(ms, startDate, dayCount) ==
  [ i \in 1..dayCount |->
      LET total == AggregateDay(MealsOn(ms, startDate + i - 1))
      IN  [ date |-> startDate + i - 1,
            calories |-> total.calories,
            macros |-> total.macros ] ]

\* weekly?.length
OptionalLength(w) == IF w = Null THEN Undefined ELSE Num(Len(w.elems))

\* Array(n).fill(value): Array(n) has n empty slots when n is a number, and
\* the one element n when it is not
ArrayFill(n, value) ==
  IF IsNum(n) THEN [i \in 1..n.l |-> value] ELSE <<value>>

\* weekly ? weekly.map(day => day.date) : []
Labels(w) ==
  IF w # Null THEN [i \in 1..Len(w.elems) |-> w.elems[i].date] ELSE <<>>

\* weekly ? weekly.map(day => day.calories) : []
Consumed(w) ==
  IF w # Null THEN [i \in 1..Len(w.elems) |-> w.elems[i].calories] ELSE <<>>

\* const calorieChartData = { labels, datasets: [{ data }, { data }] }
CalorieChartData(w, u) ==
  [ labels |-> Labels(w),
    consumed |-> Consumed(w),
    goal |-> ArrayFill(OptionalLength(w), u.dailyCalorieGoal) ]

\* const today = daily || { calories: 0, macros: {...}, remaining: ... }
Today(d, u) ==
  IF d # Null
    THEN d
    ELSE [ calories |-> Num(0),
           macros |-> NoMacros,
           remaining |-> OrElse(u.dailyCalorieGoal, Num(DefaultGoal)) ]

NoChart == [labels |-> <<>>, consumed |-> <<>>, goal |-> <<>>]

InitDashboardIdle ==
  /\ user = [dailyCalorieGoal |-> Undefined]
  /\ logged = {}
  /\ daily = Null
  /\ weekly = Null
  /\ rendered = FALSE
  /\ today = Null
  /\ calorieChartData = NoChart

\* the screen of a user who has logged in; nothing is fetched yet
InitDashboard ==
  /\ user \in [dailyCalorieGoal : DashboardGoals]
  /\ logged = {}
  /\ daily = Null
  /\ weekly = Null
  /\ rendered = FALSE
  /\ today = Null
  /\ calorieChartData = NoChart

\* the user logs a meal
LogMeal(m) ==
  /\ m \notin logged
  /\ logged' = logged \cup {m}
  /\ UNCHANGED <<user, daily, weekly, rendered, today, calorieChartData>>

\* dispatch(fetchDailyStats()) has succeeded
FetchDailyStats ==
  /\ daily' = DailyStat(logged, TargetDate, user.dailyCalorieGoal)
  /\ UNCHANGED <<user, logged, weekly, rendered, today, calorieChartData>>

\* dispatch(fetchWeeklyStats()) has succeeded
FetchWeeklyStats ==
  /\ weekly' = ArrayOf(WeeklyStat(logged, StartDate, WeekDays))
  /\ UNCHANGED <<user, logged, daily, rendered, today, calorieChartData>>

\* the component renders
Render ==
  /\ calorieChartData' = CalorieChartData(weekly, user)
  /\ today' = Today(daily, user)
  /\ rendered' = TRUE
  /\ UNCHANGED <<user, logged, daily, weekly>>

NextDashboard ==
  \/ \E m \in MealPool : LogMeal(m) /\ UNCHANGED <<mealVars, permVars, regVars, concVars>>
  \/ FetchDailyStats /\ UNCHANGED <<mealVars, permVars, regVars, concVars>>
  \/ FetchWeeklyStats /\ UNCHANGED <<mealVars, permVars, regVars, concVars>>
  \/ Render /\ UNCHANGED <<mealVars, permVars, regVars, concVars>>

(***************************************************************************)
(* registerUser under concurrent requests.  A handler runs alone between   *)
(* two awaits; at an await (User.findOne, newUser.save) the handlers of    *)
(* other requests run.  The users collection carries the unique index of   *)
(* UserSchema.email, which the insert of a save checks.                    *)
(***************************************************************************)
Requests == 1..MaxRequests

ConcurrentBodies == [email : Emails, weight : {280}, goal : {"maintain", "bulk"}]

ConcurrentTdee == {2034}

IdleRequest ==
  [ pc |-> "idle", body |-> NoBody, existingUser |-> Null, newUser |-> NoUser,
    response |-> 0, token |-> FALSE ]

InitConcurrent ==
  /\ requests = [r \in Requests |-> IdleRequest]
  /\ collection = {}

\* new User({...}) gives the document its _id
Document(id, u) ==
  [ _id |-> id, email |-> u.email, weight |-> u.weight, goal |-> u.goal,
    dailyCalorieGoal |-> u.dailyCalorieGoal, macroGoals |-> u.macroGoals ]

\* User.findOne({ email })
FindOne(coll, email) ==
  IF \E u \in coll : u.email = email
    THEN CHOOSE u \in coll : u.email = email
    ELSE Null

\* an insert that does not look at the index
UniqueIndexAdmitsAll(doc, coll) == TRUE

\* email: { unique: true }: the index refuses a second document of an email
UniqueIndexAdmits(doc, coll) == \A u \in coll : u.email # doc.email

\* request r arrives; its handler runs to: await User.findOne({ email })
Receive(r, b) ==
  /\ requests[r].pc = "idle"
  /\ requests' = [requests EXCEPT ![r].pc = "findOne", ![r].body = b]
  /\ UNCHANGED collection

\* findOne of r found a user: if (existingUser) return res.status(400)
EmailUsed(r) ==
  /\ requests[r].pc = "findOne"
  /\ FindOne(collection, requests[r].body.email) # Null
  /\ requests' =
       [ requests EXCEPT
           ![r].existingUser = FindOne(collection, requests[r].body.email),
           ![r].response = 400,
           ![r].pc = "done" ]
  /\ UNCHANGED collection

\* findOne of r found none: the document is built; the handler runs to:
\* await newUser.save()
Build(r, t) ==
  /\ requests[r].pc = "findOne"
  /\ FindOne(collection, requests[r].body.email) = Null
  /\ LET b == requests[r].body
         calorieGoal == CalorieGoal(t, b.goal)
         u == NewUser(b, calorieGoal, MacroGoals(b.weight, calorieGoal))
     IN  requests' =
           [requests EXCEPT ![r].newUser = Document(r, u), ![r].pc = "save"]
  /\ UNCHANGED collection

\* newUser.save() of r: the validation, then the insert under the index
Insert(r) ==
  /\ requests[r].pc = "save"
  /\ IF /\ requests[r].newUser.goal \in GoalValues
        /\ UniqueIndexAdmits(requests[r].newUser, collection)
       THEN /\ collection' = collection \cup {requests[r].newUser}
            /\ requests' = [requests EXCEPT ![r].pc = "saved"]
       ELSE /\ requests' = [requests EXCEPT ![r].pc = "catch"]
            /\ UNCHANGED collection

\* jwt.sign(...); res.status(201).json({ token, user })
Created(r) ==
  /\ requests[r].pc = "saved"
  /\ requests' =
       [ requests EXCEPT
           ![r].token = TRUE, ![r].response = 201, ![r].pc = "done" ]
  /\ UNCHANGED collection

\* catch (error): res.status(500)
Failed(r) ==
  /\ requests[r].pc = "catch"
  /\ requests' = [requests EXCEPT ![r].response = 500, ![r].pc = "done"]
  /\ UNCHANGED collection

NextConcurrent ==
  \/ \E r \in Requests, b \in ConcurrentBodies :
       Receive(r, b) /\ UNCHANGED <<mealVars, permVars, regVars, dashVars>>
  \/ \E r \in Requests :
       EmailUsed(r) /\ UNCHANGED <<mealVars, permVars, regVars, dashVars>>
  \/ \E r \in Requests, t \in ConcurrentTdee :
       Build(r, t) /\ UNCHANGED <<mealVars, permVars, regVars, dashVars>>
  \/ \E r \in Requests :
       Insert(r) /\ UNCHANGED <<mealVars, permVars, regVars, dashVars>>
  \/ \E r \in Requests :
       Created(r) /\ UNCHANGED <<mealVars, permVars, regVars, dashVars>>
  \/ \E r \in Requests :
       Failed(r) /\ UNCHANGED <<mealVars, permVars, regVars, dashVars>>

(***************************************************************************)
(* The specifications: the Meal document, the aggregation of a permuted   *)
(* list, the registration, the dashboard, the concurrent registrations.   *)
(***************************************************************************)
InitOfMeal ==
  InitMeal /\ InitPermIdle /\ InitRegister /\ InitDashboardIdle /\ InitConcurrent

SpecMeal == InitOfMeal /\ [][NextMeal]_vars

InitOfPerm ==
  InitMeal /\ InitPerm /\ InitRegister /\ InitDashboardIdle /\ InitConcurrent

SpecPerm == InitOfPerm /\ [][NextPerm]_vars

InitOfRegister ==
  InitMeal /\ InitPermIdle /\ InitRegister /\ InitDashboardIdle /\ InitConcurrent

SpecRegister == InitOfRegister /\ [][NextRegister]_vars

InitOfDashboard ==
  InitMeal /\ InitPermIdle /\ InitRegister /\ InitDashboard /\ InitConcurrent

SpecDashboard == InitOfDashboard /\ [][NextDashboard]_vars

InitOfConcurrent ==
  InitMeal /\ InitPermIdle /\ InitRegister /\ InitDashboardIdle /\ InitConcurrent

SpecConcurrent == InitOfConcurrent /\ [][NextConcurrent]_vars

(***************************************************************************)
(* Properties of the Meal document.                                        *)
(***************************************************************************)
ServingOf(item) == FoodCatalog[item.food].servingSize

UnitMatches(item) == Populated(item.food) /\ item.unit = ServingOf(item).unit

NonNegative(x) == IsNum(x) /\ (x.h > 0 \/ (x.h = 0 /\ x.l >= 0))

\* what one item adds to each total
Contribution(item) ==
  LET food == FoodCatalog[item.food]
  IN  [ calories |-> Mul(food.calories, item.quantity),
        protein |-> Mul(food.macros.protein, item.quantity),
        carbs |-> Mul(food.macros.carbs, item.quantity),
        fat |-> Mul(food.macros.fat, item.quantity) ]

RECURSIVE SumOf(_, _)
\* the sum of one nutrient over the items, first item first
SumOf(its, nutrient) ==
  IF its = <<>> THEN Num(0)
  ELSE Add(SumOf(SubSeq(its, 1, Len(its) - 1), nutrient),
           Contribution(its[Len(its)])[nutrient])

\* C1: a saved meal of one item whose unit is its food's serving unit has
\* totals = per-serving value * quantity / servingSize.amount (stated
\* without the division: total * amount = value * quantity); so quantity
\* 200 of a food of 50 kcal per 100 g gives totalCalories = 100.
C1_UnitAwareScaling ==
  ( /\ saveResult = "ok"
    /\ Len(items) = 1
    /\ UnitMatches(items[1])
    /\ NonNegative(items[1].quantity) ) =>
    LET item == items[1]
        food == FoodCatalog[item.food]
        amount == ServingOf(item).amount
    IN  /\ Mul(totalCalories, amount) = Mul(food.calories, item.quantity)
        /\ Mul(totalMacros.protein, amount) = Mul(food.macros.protein, item.quantity)
        /\ Mul(totalMacros.carbs, amount) = Mul(food.macros.carbs, item.quantity)
        /\ Mul(totalMacros.fat, amount) = Mul(food.macros.fat, item.quantity)
        /\ (item = FoodItem("apple", Num(200), "g") => totalCalories = Num(100))

C8_IncompatibleUnitRejected ==
  ( /\ saveResult = "ok"
    /\ \A i \in 1..Len(items) :
         NonNegative(items[i].quantity) /\ items[i].quantity # Num(0) ) =>
    \A i \in 1..Len(items) : UnitMatches(items[i])

\* C9: a meal holding an item of negative or NaN quantity is never saved,
\* quantity 0 is, and every saved total is non-negative.
C9_InvalidQuantityRejected ==
  saveResult = "ok" =>
    /\ \A i \in 1..Len(items) : NonNegative(items[i].quantity)
    /\ NonNegative(totalCalories)
    /\ NonNegative(totalMacros.protein)
    /\ NonNegative(totalMacros.carbs)
    /\ NonNegative(totalMacros.fat)

\* an item the aggregation must refuse: an unresolved food, a unit that is
\* not the serving's, a quantity that is negative or not a number
CannotAggregate(item) ==
  \/ ~Populated(item.food)
  \/ ~UnitMatches(item)
  \/ ~NonNegative(item.quantity)

\* C10: a save of a meal with an item that cannot be aggregated ends in an
\* error and leaves totalCalories and totalMacros as they were.
C10_BadItemAbortsSave ==
  [][ ( /\ saveResult' # "none"
        /\ items' = items
        /\ \E i \in 1..Len(items) : CannotAggregate(items[i]) )
      => ( /\ saveResult' \in {"ValidationError", "TypeError"}
           /\ totalCalories' = totalCalories
           /\ totalMacros' = totalMacros ) ]_vars

(***************************************************************************)
(* Properties of the aggregation of a permuted list.                       *)
(***************************************************************************)
\* every nutrient value and quantity is an integer below 2^53, so that
\* every product and partial sum is computed without rounding
Exact(its) ==
  \A i \in 1..Len(its) :
    /\ IsNum(its[i].quantity) /\ its[i].quantity.h = 0
    /\ Populated(its[i].food) =>
         LET food == FoodCatalog[its[i].food]
         IN  /\ food.calories.h = 0
             /\ food.macros.protein.h = 0
             /\ food.macros.carbs.h = 0
             /\ food.macros.fat.h = 0

\* C3 as claimed: a list and every permutation of it have identical totals.
C3_OrderIndependent == aggregated => totalsA = totalsB

\* C3, amended: a list and every permutation of it have identical totals
\* when every product and partial sum is exactly representable.
C3_OrderIndependentWhenExact ==
  (aggregated /\ Exact(itemsA)) => totalsA = totalsB

C3_Witness ==
  /\ aggregated
  /\ Len(itemsA) = 3
  /\ itemsA # itemsB
  /\ Exact(itemsA)
  /\ ~totalsA.threw
  /\ totalsA.totalCals = Num(10100)

(***************************************************************************)
(* Properties of registerUser.                                             *)
(***************************************************************************)
\* the request in hand has stored its user
Stored == pc \in {"saved", "idle"} /\ newUser \in users

\* C4: the stored daily calorie goal is the baseline (TDEE) for "maintain",
\* the baseline - 500 for "lose" and the baseline + 500 for "gain".
C4_GoalIsBaselinePlusOffset ==
  Stored =>
    /\ newUser.goal = "maintain" => newUser.dailyCalorieGoal = tdee
    /\ newUser.goal = "lose" => newUser.dailyCalorieGoal = tdee - 500
    /\ newUser.goal = "gain" => newUser.dailyCalorieGoal = tdee + 500

C4_Witness ==
  /\ Stored
  /\ newUser.goal = "gain"
  /\ tdee = 2034
  /\ newUser.dailyCalorieGoal = 2534

\* C5: no stored user has a negative carbohydrate goal.
C5_CarbsNeverNegative == \A u \in users : u.macroGoals.carbs >= 0

\* C6 as claimed: the stored carbs are round((E - 4 * (weight * 2.0) -
\* 0.25 * E) / 4) for the calorie goal E; c = round(x / 16) is stated as
\* 16c - 8 <= x < 16c + 8, with x = 3E - 8 * weight in quarters of a kg.
C6_CarbsFromUnrounded ==
  Stored =>
    LET x == 3 * newUser.dailyCalorieGoal - 8 * newUser.weight
        c == newUser.macroGoals.carbs
    IN  16 * c - 8 <= x /\ x < 16 * c + 8

\* C6, amended: the stored carbs are round((E - 4 * protein - 9 * fat) / 4)
\* of the stored, rounded, protein and fat goals, rounded once, a half up.
C6_CarbsFromRoundedTargets ==
  Stored =>
    LET remaining == newUser.dailyCalorieGoal - 4 * newUser.macroGoals.protein
                       - 9 * newUser.macroGoals.fat
        c == newUser.macroGoals.carbs
    IN  4 * c - 2 <= remaining /\ remaining < 4 * c + 2

\* 70 kg and 2000 kcal: 140 g of protein, 56 g of fat, 234 g of carbs,
\* where the unrounded remainder gives 235
C6_Witness ==
  /\ Stored
  /\ newUser.weight = 280
  /\ newUser.dailyCalorieGoal = 2000
  /\ newUser.macroGoals = [protein |-> 140, carbs |-> 234, fat |-> 56]

\* C7: the stored protein is round(weight * 2.0) and the stored fat is
\* round(0.25 * E / 9), each rounded a half up: users of one weight have one
\* protein goal, users of one calorie goal one fat goal, and 70 kg gives
\* 140 g.
C7_ProteinAndFatOfOneInput ==
  /\ \A u \in users :
       /\ 2 * u.macroGoals.protein - 1 <= u.weight
       /\ u.weight < 2 * u.macroGoals.protein + 1
       /\ 36 * u.macroGoals.fat - 18 <= u.dailyCalorieGoal
       /\ u.dailyCalorieGoal < 36 * u.macroGoals.fat + 18
       /\ u.weight = 280 => u.macroGoals.protein = 140
  /\ \A u, v \in users :
       /\ u.weight = v.weight => u.macroGoals.protein = v.macroGoals.protein
       /\ u.dailyCalorieGoal = v.dailyCalorieGoal =>
            u.macroGoals.fat = v.macroGoals.fat

\* two users of 70.25 kg with different goals: 141 g of protein both
C7_Witness ==
  \E u, v \in users :
    /\ u.weight = 281 /\ v.weight = 281
    /\ u.goal = "lose" /\ v.goal = "gain"
    /\ u.macroGoals.protein = 141 /\ v.macroGoals.protein = 141
    /\ u.macroGoals.fat # v.macroGoals.fat

\* the energy of a user's macro goals, at 4, 9 and 4 kcal a gram
EnergyOfMacros(u) ==
  ProteinKcalPerGram * u.macroGoals.protein + FatKcalPerGram * u.macroGoals.fat
    + CarbsKcalPerGram * u.macroGoals.carbs

\* C13: the energy of the stored macro goals, 4 * protein + 9 * fat +
\* 4 * carbs, is within 2 kcal of the stored daily calorie goal.
C13_MacrosWithinTwoOfGoal ==
  \A u \in users :
    /\ EnergyOfMacros(u) - u.dailyCalorieGoal <= 2
    /\ u.dailyCalorieGoal - EnergyOfMacros(u) <= 2

\* a stored user whose macro goals carry 2 kcal more than the calorie goal:
\* the remainder fell on a half and was rounded up
C13_Witness ==
  \E u \in users : EnergyOfMacros(u) - u.dailyCalorieGoal = 2

(***************************************************************************)
(* Properties of the dashboard.                                            *)
(***************************************************************************)
\* C11: with no daily stat available, the summary of the rendered dashboard
\* shows 0 calories, 0 g of protein, carbs and fat, and as remaining the
\* daily calorie goal stored for the user, whatever number that goal is.
C11_EmptyDayShowsFullGoal ==
  (rendered /\ daily = Null /\ IsNum(user.dailyCalorieGoal)) =>
    /\ today.calories = Num(0)
    /\ today.macros = NoMacros
    /\ today.remaining = user.dailyCalorieGoal

\* the weekly statistics of the store: WeekDays entries, one for each day
\* from StartDate on in ascending order, zeros on a day without meals
WeeklyIsAWeek ==
  weekly # Null =>
    /\ Len(weekly.elems) = WeekDays
    /\ \A i \in 1..Len(weekly.elems) :
         /\ weekly.elems[i].date = StartDate + i - 1
         /\ MealsOn(logged, weekly.elems[i].date) = {} =>
              /\ weekly.elems[i].calories = Num(0)
              /\ weekly.elems[i].macros = NoMacros

\* the goal series of the rendered chart is as long as the series of the
\* consumed calories
SeriesOfOneLength ==
  rendered => Len(calorieChartData.goal) = Len(calorieChartData.consumed)

\* C12: the weekly statistics have exactly 7 entries, one a day in ascending
\* order, zero-filled on a day without meals, whatever meals are logged; and
\* the chart's goal series always has the length of its consumed series.
C12_WeekOfSevenAndSeriesAligned == WeeklyIsAWeek /\ SeriesOfOneLength

(***************************************************************************)
(* Properties of concurrent registrations.                                 *)
(***************************************************************************)
\* C14: at most one user is stored per email; a request whose check finds
\* the email responds 400, builds and stores no user and gets no token (and
\* only such a request responds 400); a token goes with a 201 and a stored
\* user; two requests of one email never both end with a stored user and a
\* 201 with its token.
C14_OneUserPerEmail ==
  /\ \A u, v \in collection : u.email = v.email => u = v
  /\ \A r \in Requests :
       /\ requests[r].existingUser # Null =>
            /\ requests[r].response = 400
            /\ requests[r].newUser = NoUser
            /\ ~requests[r].token
            /\ \A u \in collection : u._id # r
       /\ requests[r].response = 400 =>
            /\ requests[r].existingUser \in collection
            /\ requests[r].existingUser.email = requests[r].body.email
       /\ requests[r].token <=> requests[r].response = 201
       /\ requests[r].response = 201 => requests[r].newUser \in collection
  /\ \A r, q \in Requests :
       (r # q /\ requests[r].body.email = requests[q].body.email) =>
         ~(requests[r].response = 201 /\ requests[q].response = 201)

\* two requests of one new email have both passed the check, with valid
\* documents; one has stored its user and got 201, the other got 500
C14_Witness ==
  \E r, q \in Requests :
    /\ r # q
    /\ requests[r].body.email = requests[q].body.email
    /\ requests[r].existingUser = Null /\ requests[q].existingUser = Null
    /\ requests[q].newUser # NoUser
    /\ requests[q].newUser.goal \in GoalValues
    /\ requests[r].response = 201 /\ requests[r].newUser \in collection
    /\ requests[q].response = 500 /\ requests[q].newUser \notin collection

====
